---- MODULE Spec2Model ----
(***************************************************************************)
(* Model of src/tsne/tsne_caption_3d_scatter.py: class                     *)
(* TSNECaption3DScatter (constructor, generate, _generate_tsne,            *)
(* _plot_tsne_scatter).                                                    *)
(*                                                                         *)
(* Paths are sequences of path components below the working directory      *)
(* ('./' is the empty sequence).  A quotient a/b computed by numpy is the  *)
(* record [num |-> a, den |-> b]; 0/0 is what numpy returns as NaN.        *)
(* The t-SNE reduction and the file write are library calls: their result  *)
(* is a nondeterministic choice (any raw 3D embedding with one row per     *)
(* input row, or a failure).                                               *)
(***************************************************************************)
EXTENDS Integers, Sequences, FiniteSets, TLC

\* ---------------------------------------------------------------- bounds
MaxDim == 2        \* output_dimension ranges over -MaxDim..MaxDim
MaxRows == 4       \* the activation matrix has at most MaxRows rows
MaxCaptions == 4   \* the caption list has at most MaxCaptions entries
MaxCalls == 2      \* generate() is called at most MaxCalls times
MaxCoord == 1      \* raw coordinates of SpecNorm range over 0..MaxCoord
MaxPoints == 3     \* raw embeddings of SpecNorm have 2..MaxPoints points

\* ------------------------------------------------------------ environment
Cwd == <<>>

\* What the file system holds at the candidate output directories.
DirKind(d) ==
    IF d = Cwd THEN "dir"
    ELSE IF d = <<"out">> THEN "dir"
    ELSE IF d = <<"notes.txt">> THEN "file"
    ELSE "none"

OutputDirectories == {Cwd, <<"out">>, <<"notes.txt">>, <<"missing">>}
OutputNames == {"a.jpg", "b.jpg"}

\* os.path.exists: true for any existing path, directory or not.
PathExists(d) == DirKind(d) # "none"

\* os.path.join(directory, name)
Join(d, name) == d \o <<name>>

\* Activation matrices: row r is the feature vector <<r>>.
ActivationMatrices == {[r \in 1..n |-> <<r>>] : n \in 0..MaxRows}

\* Caption lists: caption c is the string of its position.
CaptionLists == {[c \in 1..n |-> ToString(c)] : n \in 0..MaxCaptions}

Dimensions == (0 - MaxDim)..MaxDim

\* Raw 3D points the reduction step places a row at in Spec (SpecNorm draws
\* every raw embedding over Coords); rows placed at one point give axes on
\* which all points share a value.
RawPoints == {<<0, 1, 0>>, <<1, 0, 1>>}

\* ------------------------------------------------------------------ state
VARIABLES
    pc,             \* position of the caller / of generate()
    self,           \* the fields of the TSNECaption3DScatter object
    ctor_error,     \* the ValueError raised by __init__, "none" if none
    X_3d,           \* local of generate / _generate_tsne
    x, y, z,        \* locals of _plot_tsne_scatter
    i,              \* loop index of _plot_tsne_scatter (0-based)
    fig,            \* the figure: markers and text labels drawn so far
    written,        \* paths written by savefig, in order
    outcomes,       \* outcome of each finished generate() call
    error,          \* exception of the current call that reached the caller
    tsne_attempts,  \* runs of fit_transform in the current call
    save_attempts   \* runs of savefig in the current call

vars == <<pc, self, ctor_error, X_3d, x, y, z, i, fig, written, outcomes,
          error, tsne_attempts, save_attempts>>

NoSelf ==
    [activations |-> <<>>, text_representation |-> [texts |-> <<>>],
     output_dimension |-> 0, output_name |-> "", output_directory |-> Cwd,
     to_plot |-> 0]

EmptyFig == [markers |-> <<>>, labels |-> <<>>]

\* ------------------------------------------------------------- __init__
\* np.square
Square(v) == v * v

DimensionUnsupportedZero(od) == od = 0
\* line 96
DimensionUnsupported(od) == od = 1

ConstructorErrorDirectoryFirst(od, dir) ==
    IF ~PathExists(dir) THEN "not a valid directory"
    ELSE IF DimensionUnsupported(od) THEN "dimension 1x1 not supported"
    ELSE "none"
\* lines 96-100: the two checks, in order
ConstructorError(od, dir) ==
    IF DimensionUnsupported(od) THEN "dimension 1x1 not supported"
    ELSE IF ~PathExists(dir) THEN "not a valid directory"
    ELSE "none"

Construct ==
    /\ pc = "new"
    /\ \E acts \in ActivationMatrices, texts \in CaptionLists,
          od \in Dimensions, name \in OutputNames, dir \in OutputDirectories :
          /\ self' = [activations |-> acts,
                      text_representation |-> [texts |-> texts],
                      output_dimension |-> od,
                      output_name |-> name,
                      output_directory |-> dir,
                      to_plot |-> Square(od)]
          /\ ctor_error' = ConstructorError(od, dir)
          /\ pc' = IF ConstructorError(od, dir) = "none" THEN "ready"
                   ELSE "ctor_raised"
    /\ UNCHANGED <<X_3d, x, y, z, i, fig, written, outcomes, error,
                   tsne_attempts, save_attempts>>

\* ------------------------------------------------------------- generate
\* generate() has no try/except: an exception of a step ends the call.
PropagateSwallow(exc) ==
    [pc |-> IF exc \in {"ValueError", "NumericError"} THEN "plot_init"
            ELSE "done",
     error |-> "none", finished |-> FALSE]
Propagate(exc) == [pc |-> "raised", error |-> exc, finished |-> TRUE]

SelfAfterGenerateConsumed(s) == [s EXCEPT !.to_plot = 0]
\* generate and its two helpers assign no field of self
SelfAfterGenerate(s) == s

GenerateCall ==
    /\ pc \in {"ready", "raised"}
    /\ Len(outcomes) < MaxCalls
    /\ pc' = "tsne"
    /\ X_3d' = <<>>
    /\ x' = <<>> /\ y' = <<>> /\ z' = <<>>
    /\ i' = 0
    /\ fig' = EmptyFig
    /\ error' = "none"
    /\ tsne_attempts' = 0
    /\ save_attempts' = 0
    /\ UNCHANGED <<self, ctor_error, written, outcomes>>

Raise(exc) ==
    /\ pc' = Propagate(exc).pc
    /\ error' = Propagate(exc).error
    /\ outcomes' = IF Propagate(exc).finished THEN Append(outcomes, exc)
                   ELSE outcomes

\* -------------------------------------------------------- _generate_tsne
MinOf(a, b) == IF a < b THEN a ELSE b

SelectRowsLast(acts, n) ==
    [j \in 1..MinOf(n, Len(acts)) |->
        [index |-> j, row |-> acts[Len(acts) - MinOf(n, Len(acts)) + j]]]
\* np.array(self.activations)[0:self.to_plot,:]
SelectRows(acts, n) ==
    [j \in 1..MinOf(n, Len(acts)) |-> [index |-> j, row |-> acts[j]]]

\* fit_transform: one raw 3D point per input row, in input order
TSNE(rows, raw) == [j \in DOMAIN rows |-> [row |-> rows[j].row, p |-> raw[j]]]

AxisMin(X, k) ==
    CHOOSE m \in {X[j].p[k] : j \in DOMAIN X} :
        \A j \in DOMAIN X : m <= X[j].p[k]
AxisMax(X, k) ==
    CHOOSE m \in {X[j].p[k] : j \in DOMAIN X} :
        \A j \in DOMAIN X : m >= X[j].p[k]

\* X_3d -= X_3d.min(axis=0)
SubtractMin(X) ==
    [j \in DOMAIN X |->
        [row |-> X[j].row, p |-> [k \in 1..3 |-> X[j].p[k] - AxisMin(X, k)]]]

\* numpy division: a quotient, 0/0 being NaN
Div(a, b) == [num |-> a, den |-> b]

\* X_3d /= X_3d.max(axis=0)
DivideByMax(X) ==
    [j \in DOMAIN X |->
        [row |-> X[j].row, p |-> [k \in 1..3 |-> Div(X[j].p[k], AxisMax(X, k))]]]

Normalise(X) == DivideByMax(SubtractMin(X))

GenerateTsne ==
    /\ pc = "tsne"
    /\ LET rows == SelectRows(self.activations, self.to_plot) IN
          /\ Len(rows) > 0
          /\ \E raw \in [1..Len(rows) -> RawPoints] :
                X_3d' = Normalise(TSNE(rows, raw))
    /\ pc' = "plot_init"
    /\ tsne_attempts' = tsne_attempts + 1
    /\ UNCHANGED <<self, ctor_error, x, y, z, i, fig, written, outcomes,
                   error, save_attempts>>

\* The reduction fails: no rows to reduce (an empty array has no minimum),
\* or a numeric failure inside the library.
EmbeddingErrors == {"ValueError", "NumericError"}

GenerateTsneFails ==
    /\ pc = "tsne"
    /\ tsne_attempts' = tsne_attempts + 1
    /\ Raise(IF Len(SelectRows(self.activations, self.to_plot)) = 0
             THEN "ValueError" ELSE "NumericError")
    /\ UNCHANGED <<self, ctor_error, X_3d, x, y, z, i, fig, written,
                   save_attempts>>

\* ---------------------------------------------------- _plot_tsne_scatter
\* lines 114-124
PlotInit ==
    /\ pc = "plot_init"
    /\ x' = [j \in DOMAIN X_3d |-> X_3d[j].p[1]]
    /\ y' = [j \in DOMAIN X_3d |-> X_3d[j].p[2]]
    /\ z' = [j \in DOMAIN X_3d |-> X_3d[j].p[3]]
    /\ fig' = EmptyFig
    /\ i' = 0
    /\ pc' = "plot_loop"
    /\ UNCHANGED <<self, ctor_error, X_3d, written, outcomes, error,
                   tsne_attempts, save_attempts>>

\* texts[i] with a 0-based i
HasCaption(texts, k) == k < Len(texts)
CaptionAtFirst(texts, k) == texts[1]
CaptionAt(texts, k) == texts[k + 1]

LoopDoneEarly(k, n) == k >= n - 1
\* for i in range(len(x))
LoopDone(k, n) == k >= n

Position(k) == <<x[k + 1], y[k + 1], z[k + 1]>>

\* one iteration: ax.scatter, then ax.text
PlotPoint ==
    /\ pc = "plot_loop"
    /\ ~LoopDone(i, Len(x))
    /\ HasCaption(self.text_representation.texts, i)
    /\ fig' = [markers |-> Append(fig.markers, Position(i)),
               labels |-> Append(fig.labels,
                   [at |-> Position(i),
                    text |-> CaptionAt(self.text_representation.texts, i)])]
    /\ i' = i + 1
    /\ UNCHANGED <<pc, self, ctor_error, X_3d, x, y, z, written, outcomes,
                   error, tsne_attempts, save_attempts>>

\* one iteration in which texts[i] raises IndexError after ax.scatter ran
PlotPointNoCaption ==
    /\ pc = "plot_loop"
    /\ ~LoopDone(i, Len(x))
    /\ ~HasCaption(self.text_representation.texts, i)
    /\ fig' = [fig EXCEPT !.markers = Append(@, Position(i))]
    /\ Raise("IndexError")
    /\ UNCHANGED <<self, ctor_error, X_3d, x, y, z, i, written,
                   tsne_attempts, save_attempts>>

SavePathJoined(s) == Join(s.output_directory, s.output_name)
\* plt.savefig(self.output_name, ...): a name relative to the working directory
SavePath(s) == Join(Cwd, s.output_name)

Save ==
    /\ pc = "plot_loop"
    /\ LoopDone(i, Len(x))
    /\ save_attempts' = save_attempts + 1
    /\ written' = Append(written, SavePath(self))
    /\ pc' = "done"
    /\ UNCHANGED <<self, ctor_error, X_3d, x, y, z, i, fig, outcomes, error,
                   tsne_attempts>>

SaveFails ==
    /\ pc = "plot_loop"
    /\ LoopDone(i, Len(x))
    /\ save_attempts' = save_attempts + 1
    /\ Raise("SaveError")
    /\ UNCHANGED <<self, ctor_error, X_3d, x, y, z, i, fig, written,
                   tsne_attempts>>

\* generate() returns normally; its locals go out of scope
Return ==
    /\ pc = "done"
    /\ pc' = "ready"
    /\ outcomes' = Append(outcomes, "ok")
    /\ self' = SelfAfterGenerate(self)
    /\ X_3d' = <<>>
    /\ x' = <<>> /\ y' = <<>> /\ z' = <<>>
    /\ i' = 0
    /\ fig' = EmptyFig
    /\ UNCHANGED <<ctor_error, written, error, tsne_attempts, save_attempts>>

\* ------------------------------------------------------- specification
Init ==
    /\ pc = "new"
    /\ self = NoSelf
    /\ ctor_error = "none"
    /\ X_3d = <<>>
    /\ x = <<>> /\ y = <<>> /\ z = <<>>
    /\ i = 0
    /\ fig = EmptyFig
    /\ written = <<>>
    /\ outcomes = <<>>
    /\ error = "none"
    /\ tsne_attempts = 0
    /\ save_attempts = 0

Next ==
    \/ Construct
    \/ GenerateCall
    \/ GenerateTsne
    \/ GenerateTsneFails
    \/ PlotInit
    \/ PlotPoint
    \/ PlotPointNoCaption
    \/ Save
    \/ SaveFails
    \/ Return

Spec == Init /\ [][Next]_vars

\* ------------------------------------------ the rescaling, on its own
Coords == 0..MaxCoord

\* every raw embedding of n points over Coords
RawEmbeddings(n) ==
    {[j \in 1..n |-> [row |-> <<j>>, p |-> raw[j]]] :
        raw \in [1..n -> (Coords \X Coords \X Coords)]}

\* the state after line 108: fit_transform has returned a raw embedding
InitNorm ==
    /\ pc = "tsne_fit"
    /\ \E n \in 2..MaxPoints : X_3d \in RawEmbeddings(n)
    /\ self = NoSelf
    /\ ctor_error = "none"
    /\ x = <<>> /\ y = <<>> /\ z = <<>>
    /\ i = 0
    /\ fig = EmptyFig
    /\ written = <<>>
    /\ outcomes = <<>>
    /\ error = "none"
    /\ tsne_attempts = 1
    /\ save_attempts = 0

\* lines 109-110
NormaliseStep ==
    /\ pc = "tsne_fit"
    /\ X_3d' = Normalise(X_3d)
    /\ pc' = "normalised"
    /\ UNCHANGED <<self, ctor_error, x, y, z, i, fig, written, outcomes,
                   error, tsne_attempts, save_attempts>>

NextNorm == NormaliseStep

SpecNorm == InitNorm /\ [][NextNorm]_vars

\* ------------------------------------------------------------- claims
Texts == self.text_representation.texts
DimensionSquared == self.output_dimension * self.output_dimension
Constructed == pc # "new" /\ pc # "tsne_fit" /\ pc # "normalised"
OkCalls == {k \in DOMAIN outcomes : outcomes[k] = "ok"}

\* the path exists and is a directory (os.path.isdir, which the source
\* never calls)
IsDirectory(d) == DirKind(d) = "dir"

\* C1: with output_dimension = 1 the constructor raises, for an existing
\* and for a missing output directory alike, and neither the embedding
\* step nor a file write ever happens.
C1_DimensionOneRejected ==
    (Constructed /\ self.output_dimension = 1) =>
        /\ pc = "ctor_raised"
        /\ ctor_error # "none"
        /\ tsne_attempts = 0
        /\ written = <<>>
        /\ outcomes = <<>>

C1_Witness ==
    /\ pc = "ctor_raised"
    /\ self.output_dimension = 1
    /\ IsDirectory(self.output_directory)

\* C2: whenever output_directory does not exist as a directory (missing,
\* or existing but not a directory) the constructor raises.
C2_NotADirectoryRejected ==
    (Constructed /\ ~IsDirectory(self.output_directory)) => pc = "ctor_raised"

\* C3: a successful generate() has written exactly one file, at
\* output_directory joined with output_name.
C3_WrittenUnderOutputDirectory ==
    pc = "done" =>
        /\ save_attempts = 1
        /\ written # <<>>
        /\ written[Len(written)] =
               Join(self.output_directory, self.output_name)

\* C4 as stated: for every accepted configuration the embedding has exactly
\* output_dimension squared points, point j coming from activation row j.
C4_ExactlyDimensionSquared ==
    pc = "plot_init" =>
        /\ Len(X_3d) = DimensionSquared
        /\ \A j \in 1..Len(X_3d) : X_3d[j].row = self.activations[j]

\* C4 amended: whenever the embedding step returns, it has
\* min(output_dimension squared, number of activation rows) points, hence
\* exactly output_dimension squared when there are that many rows, and
\* point j comes from activation row j.
C4_FirstRowsInOrder ==
    pc = "plot_init" =>
        /\ Len(X_3d) = MinOf(DimensionSquared, Len(self.activations))
        /\ (Len(self.activations) >= DimensionSquared
                => Len(X_3d) = DimensionSquared)
        /\ \A j \in 1..Len(X_3d) : X_3d[j].row = self.activations[j]

C4_Witness ==
    /\ pc = "plot_init"
    /\ self.output_dimension = 2
    /\ Len(self.activations) >= 4
    /\ Len(X_3d) = 4

\* a quotient lies in [0,1], is 0, is 1 (none of which holds of NaN)
InUnit(q) == q.den > 0 /\ 0 <= q.num /\ q.num <= q.den
IsZero(q) == q.den > 0 /\ q.num = 0
IsOne(q) == q.den > 0 /\ q.num = q.den

\* C5: for every raw embedding of more than one point, constant axes
\* included, every rescaled coordinate lies in [0,1] and each axis has
\* minimum 0 and maximum 1.
C5_RescaledToUnitCube ==
    (pc = "normalised" /\ Len(X_3d) > 1) =>
        /\ \A j \in DOMAIN X_3d : \A k \in 1..3 : InUnit(X_3d[j].p[k])
        /\ \A k \in 1..3 :
              /\ \E j \in DOMAIN X_3d : IsZero(X_3d[j].p[k])
              /\ \E j \in DOMAIN X_3d : IsOne(X_3d[j].p[k])

\* C6: a drawn label j sits at point j and carries caption j; when the
\* save has happened every point has exactly one marker and one label,
\* and no label exists beyond the plotted points.
C6_CaptionAlignment ==
    /\ \A j \in DOMAIN fig.labels :
          /\ j <= Len(X_3d)
          /\ fig.labels[j].at = X_3d[j].p
          /\ fig.labels[j].text = Texts[j]
    /\ \A j \in DOMAIN fig.markers :
          j <= Len(X_3d) /\ fig.markers[j] = X_3d[j].p
    /\ pc = "done" =>
          /\ Len(fig.markers) = Len(X_3d)
          /\ Len(fig.labels) = Len(X_3d)

C6_Witness ==
    /\ pc = "done"
    /\ Len(X_3d) >= 2
    /\ Len(fig.labels) = Len(X_3d)
    /\ Len(Texts) > Len(X_3d)

C7_Inv ==
    /\ \A k \in DOMAIN written : written[k] = written[1]
    /\ Len(written) >= Cardinality(OkCalls)
    /\ \A k \in OkCalls : \A m \in DOMAIN outcomes :
          m > k => outcomes[m] \in {"ok", "NumericError", "SaveError"}

\* C7: generate() leaves every field of the renderer as the constructor
\* set it; after a call that succeeded a later call fails only if the
\* reduction or the save itself fails, and every call writes the same path.
C7_Idempotent ==
    /\ [](C7_Inv)
    /\ [][Constructed => self' = self]_vars

C7_Witness ==
    /\ Len(outcomes) >= 2
    /\ outcomes[1] = "ok" /\ outcomes[2] = "ok"
    /\ Len(written) >= 2
    /\ written[2] = written[1]

\* C8: per call the reduction and the save run at most once; a failed
\* reduction reaches the caller with nothing rendered or saved, a failed
\* save reaches the caller, and only a call that saved returns normally.
C8_NoRetryNoRecovery ==
    /\ tsne_attempts <= 1
    /\ save_attempts <= 1
    /\ error # "none" =>
          /\ pc = "raised"
          /\ outcomes # <<>>
          /\ outcomes[Len(outcomes)] = error
    /\ error \in EmbeddingErrors =>
          fig = EmptyFig /\ x = <<>> /\ save_attempts = 0
    /\ error = "SaveError" => save_attempts = 1
    /\ pc \in {"plot_init", "plot_loop", "done"} =>
          tsne_attempts = 1 /\ X_3d # <<>>
    /\ pc = "done" => save_attempts = 1
    /\ Len(written) =
          Cardinality(OkCalls) + (IF pc = "done" THEN 1 ELSE 0)

C8_Witness ==
    /\ pc = "raised"
    /\ error = "NumericError"
    /\ Len(SelectRows(self.activations, self.to_plot)) > 0
    /\ tsne_attempts = 1
    /\ written = <<>>

\* C9: with fewer captions than plotted points the call raises IndexError
\* at the first point without a caption, the earlier points being drawn,
\* and nothing is saved; the save runs only once every point is marked
\* and labelled.
C9_ShortCaptionList ==
    /\ (pc \in {"plot_loop", "done", "raised"} /\ Len(Texts) < Len(x)) =>
          /\ save_attempts = 0
          /\ pc # "done"
          /\ pc = "raised" =>
                /\ error = "IndexError"
                /\ i = Len(Texts)
                /\ Len(fig.labels) = Len(Texts)
                /\ Len(fig.markers) = Len(Texts) + 1
    /\ (pc \in {"done", "raised"} /\ save_attempts > 0) =>
          Len(fig.labels) = Len(X_3d) /\ Len(fig.markers) = Len(X_3d)

C9_Witness ==
    /\ pc = "raised"
    /\ error = "IndexError"
    /\ Len(Texts) >= 1
    /\ Len(fig.labels) = Len(Texts)
    /\ Len(X_3d) > Len(Texts)
    /\ written = <<>>

====
